---- MODULE Spec2Model ----
(***************************************************************************)
(* eCurtains v1.07: position/threshold record, move_motor, the /api and    *)
(* web-UI dispatchers, setup() and loop(), over the AccelStepper interface *)
(* and the EEPROM image.                                                   *)
(*                                                                         *)
(* Positions are C floats in the firmware.  Here a position is an integer  *)
(* number of 1/Unit rotations, Unit being the least common multiple of the *)
(* two steps-per-revolution constants, so that every value raw/steps is    *)
(* exact.  Float rounding error is not modelled.                           *)
(***************************************************************************)
EXTENDS Integers, Sequences, FiniteSets, TLC

\* ------------------------------------------------------------------ defines
STEPS_PER_REVOLUTION_28BYJ == 2048
STEPS_PER_REVOLUTION_NEMA17 == 200

\* position units per rotation: lcm(2048, 200) = 51200
Unit == 256 * STEPS_PER_REVOLUTION_NEMA17

DEFAULT_POSITION_LEFT == (0 - 100) * Unit
DEFAULT_POSITION_CURRENT_PREVIOUS == 0 * Unit
DEFAULT_POSITION_CURRENT == 0 * Unit
DEFAULT_POSITION_RIGHT == 100 * Unit

\* g_epsilon = 0.00001 = 1 / EpsilonDenominator
EpsilonDenominator == 100000

\* (int) g_current_version, g_current_version = 1.07
CurrentMajorVersion == 1

MOTOR_ACCELERATION == 100
MOTOR_MAX_SPEED == 250
LENGTH_API_KEY == 64
DEFAULT_LANGUAGE == 1

g_default_host_name == "eCurtains"
g_default_api_key == "27031969"

\* ------------------------------------------------------------------- bounds
\* number of requests, restarts and power losses in one behaviour
MaxOps == 3
\* a run of loop passes without request is enumerated while the raw step
\* counter stays within MaxRaw; the run to the target is always enumerated
MaxRaw == 150

\* requested rotations of API move_motor, value of set_left / set_right
ApiDeltas == {(0 - 100) * Unit, 10 * Unit, 50 * Unit}
ThresholdValues == {(0 - 150) * Unit, 20 * Unit}
\* lengths of the enumerated runs of loop passes (steps taken)
Bursts == {150}
\* the web step buttons pressed, as indices of WebSteps (0.1, 0.25, ...)
PressedSteps == {1}

\* an api parameter, or a new key, of 65 characters
LongKey == "0123456789012345678901234567890123456789012345678901234567890123x"
\* the set_api requests: api parameter and value
SetApiRequests ==
    {[api |-> g_default_api_key, value |-> "secret"],
     [api |-> "secret", value |-> "secret"],
     [api |-> "secret", value |-> LongKey],
     [api |-> LongKey, value |-> "secret"]}
\* the value of set_host, set_language, motor_acceleration, motor_max_speed
\* requests, << >> being the empty string
HostValues == {<< >>, << "blinds" >>}
LanguageValues == {<< >>, << 1 >>, << 5 >>}
AccelerationValues == {<< >>, << 50 >>}
MaxSpeedValues == {<< >>, << 500 >>}
\* the API key typed into the settings form when it is not left as shown
FormKey == "webkey"
\* the WiFi dialogs submitted
WifiForms == {[ssid |-> "home", password |-> "homepass"]}
\* the settings forms submitted: motor profile, whether the key is retyped,
\* whether the request carries the login cookie
SettingsForms ==
    {[kind |-> 0, retyped |-> FALSE, cookie |-> TRUE],
     [kind |-> 1, retyped |-> FALSE, cookie |-> TRUE],
     [kind |-> 1, retyped |-> TRUE, cookie |-> TRUE],
     [kind |-> 0, retyped |-> FALSE, cookie |-> FALSE]}

\* the requests tried with a wrong API key / without the login cookie
UnauthorizedApiActions == {"move_motor"}
UnauthorizedWebButtons == {"stop_motor"}

\* ------------------------------------------------------------------ helpers
Abs(x) == IF x < 0 THEN 0 - x ELSE x

\* C conversion float -> long of a / b : truncation toward zero
TruncDiv(a, b) == IF a >= 0 THEN a \div b ELSE 0 - ((0 - a) \div b)

\* fabs(x) < g_epsilon, x in position units: |x| / Unit < 1 / EpsDen
FabsLessEpsilon(x) ==
    Abs(x) < (Unit \div EpsilonDenominator)
             + (IF Unit % EpsilonDenominator = 0 THEN 0 ELSE 1)

\* fabs(x) > g_epsilon
FabsGreaterEpsilon(x) == Abs(x) > Unit \div EpsilonDenominator

\* the web step buttons of handle_root, in rotations * Unit
WebSteps == << Unit \div 10, Unit \div 4, Unit \div 2, 1 * Unit, 10 * Unit,
               100 * Unit >>

\* -------------------------------------------------------------------- state
VARIABLES
    g_data,        \* the settings struct in RAM (position record, motor profile)
    eeprom,        \* the committed EEPROM image of g_data
    stepper,       \* g_AccelStepper: raw step counter and target
    pc,            \* "idle" between requests, "move_motor" inside move_motor
                   \* after EEPROM.commit() and before g_AccelStepper.move()
    requested,     \* the rotations move_motor was last called with
    no_rotations,  \* move_motor's argument after clamping
    req,           \* the request being served / served last
    sent,          \* the responses sent for that request
    actual,        \* where the curtain physically is, in position units
    g_wifi_mode,   \* 0: access point serving the WiFi dialog, 1: on the network
    boots,         \* how many times setup() has run
    motor_pins,    \* outputs: the motor pins driven by g_AccelStepper are
                   \* enabled; sleep: the level last written to the A4988
                   \* 'sleep' pin MOTOR_PIN3 ("unset" since power-up)
    ops            \* requests and restarts so far

vars == << g_data, eeprom, stepper, pc, requested, no_rotations, req, sent,
          actual, g_wifi_mode, boots, motor_pins, ops >>

\* ------------------------------------------------------------- AccelStepper
\* AccelStepper(): a fresh driver object, counter and target at 0, and
\* neither the stored acceleration nor the stored maximum speed configured
NewStepper ==
    [currentPos |-> 0, targetPos |-> 0, acceleration |-> 0, maxSpeed |-> 0]

\* the driver configured with the acceleration alone
Configure_AccelerationOnly(st, d) ==
    [st EXCEPT !.acceleration = d.motor_acceleration]

\* setAcceleration(g_data.motor_acceleration) and
\* setMaxSpeed(g_data.motor_max_speed): the values handed to the driver
Configure(st, d) ==
    [st EXCEPT !.acceleration = d.motor_acceleration,
               !.maxSpeed = d.motor_max_speed]

\* the motor halted with its counter left as it is
SetCurrentPositionZero_Keep(st) == [st EXCEPT !.targetPos = st.currentPos]

\* setCurrentPosition(0): counter and target at 0, the motor stands
SetCurrentPositionZero(st) == [st EXCEPT !.currentPos = 0, !.targetPos = 0]

\* isRunning(): there is a distance to go
IsRunning(st) == st.currentPos # st.targetPos

\* setCurrentPosition(0) followed by move(relative)
StepperMove(st, relative) ==
    [st EXCEPT !.currentPos = 0, !.targetPos = relative]

\* position units travelled per raw step
UnitsPerStep(spr) == IF spr = 0 THEN 0 ELSE Unit \div spr

\* (long)(no_rotations * g_data.steps_per_revolution), the argument of move()
ToSteps(rot, spr) == IF spr = 0 THEN 0 ELSE TruncDiv(rot, UnitsPerStep(spr))

\* currentPosition() / (steps_per_revolution * 1.0), in position units;
\* 0 / 0.0 is NaN, which compares false with everything: <<>> stands for it
PositionsMoved(raw, spr) == IF spr = 0 THEN << >> ELSE << raw * UnitsPerStep(spr) >>

\* ------------------------------------------------------------------- setup
\* steps per revolution of a motor profile (0 = 28BYJ-48 + ULN, 1 = Nema17 + A4988)
ProfileSteps(kind) ==
    IF kind = 0 THEN STEPS_PER_REVOLUTION_28BYJ ELSE STEPS_PER_REVOLUTION_NEMA17

\* a write that never reaches the EEPROM
EepromPut_Lost(image, d) == image

\* EEPROM.put(g_start_eeprom_address, g_data); EEPROM.commit(): the image
\* after the write of d
EepromPut(image, d) == d

\* EEPROM block filled with 00 bytes (handle_erase, API reset)
ErasedImage ==
    [ssid |-> "", password |-> "", version |-> 0,
     hostname |-> "", apikey |-> "", apikey_set |-> 0, language |-> 0,
     motor_acceleration |-> 0, motor_max_speed |-> 0,
     position_left |-> 0, position_current_previous |-> 0,
     position_current |-> 0, position_right |-> 0,
     steps_per_revolution |-> 0, stepper_motor_and_driver |-> 0]

\* setup() taking every image as it is
Setup_NoDefaults(image) == [image EXCEPT !.version = CurrentMajorVersion]

\* setup(): EEPROM.get, defaults on a major version mismatch, version stamp
Setup(image) ==
    IF image.version # CurrentMajorVersion
    THEN [image EXCEPT !.ssid = "", !.password = "",
                       !.version = CurrentMajorVersion,
                       !.hostname = g_default_host_name,
                       !.apikey = g_default_api_key,
                       !.apikey_set = 0,
                       !.language = DEFAULT_LANGUAGE,
                       !.motor_acceleration = MOTOR_ACCELERATION,
                       !.motor_max_speed = MOTOR_MAX_SPEED,
                       !.position_left = DEFAULT_POSITION_LEFT,
                       !.position_current_previous = DEFAULT_POSITION_CURRENT_PREVIOUS,
                       !.position_current = DEFAULT_POSITION_CURRENT,
                       !.position_right = DEFAULT_POSITION_RIGHT]
    ELSE [image EXCEPT !.version = CurrentMajorVersion]

\* setup(): access point mode without WiFi configuration or when the
\* network cannot be joined, WiFi mode otherwise
WifiMode(d, connected) ==
    IF d.ssid = "" \/ d.password = "" THEN 0
    ELSE IF connected THEN 1 ELSE 0

NoRequest ==
    [path |-> "none", action |-> "none", value |-> << >>, text |-> << >>,
     auth |-> FALSE, busy |-> FALSE]

\* settings left by an earlier session: the 28BYJ-48 profile with the default
\* record, and the Nema17 profile with a calibration made by move_motor 10,
\* set_left, move_motor 50, set_right
StoredRecords ==
    {[Setup(ErasedImage) EXCEPT
         !.stepper_motor_and_driver = 0,
         !.steps_per_revolution = ProfileSteps(0)],
     [Setup(ErasedImage) EXCEPT
         !.position_left = 10 * Unit,
         !.position_current_previous = 10 * Unit,
         !.position_current = 60 * Unit,
         !.position_right = 60 * Unit,
         !.stepper_motor_and_driver = 1,
         !.steps_per_revolution = ProfileSteps(1)]}

\* the EEPROM images setup() finds at power-up: what an earlier session left
\* once WiFi and motor profile had been set (the erased block is reached by
\* /erase and by the API's reset)
BootImages ==
    {[rec EXCEPT !.ssid = "home", !.password = "homepass"]
       : rec \in StoredRecords}

\* the pins after setup(): the AccelStepper constructor enables its outputs,
\* the 'sleep' pin has not been written
PinsAfterSetup == [outputs |-> TRUE, sleep |-> "unset"]

\* move_motor enabling only the AccelStepper outputs, whatever the driver
EnableDriver_OutputsOnly(pins, d) == [pins EXCEPT !.outputs = TRUE]

\* move_motor, "Check which motor driver is used": enableOutputs() for the
\* 28BYJ-48 + ULN, 'sleep' pin HIGH for the Nema17 + A4988
EnableDriver(pins, d) ==
    IF d.stepper_motor_and_driver = 0
    THEN [pins EXCEPT !.outputs = TRUE]
    ELSE [pins EXCEPT !.sleep = "HIGH"]

\* loop(), "Keep the motor cool": disableOutputs() for the 28BYJ-48 + ULN,
\* 'sleep' pin LOW for the Nema17 + A4988
DisableDriver(pins, d) ==
    IF d.stepper_motor_and_driver = 0
    THEN [pins EXCEPT !.outputs = FALSE]
    ELSE [pins EXCEPT !.sleep = "LOW"]

\* the driver selected by the settings powers the motor
DriverEnabled(pins, d) ==
    IF d.stepper_motor_and_driver = 0 THEN pins.outputs ELSE pins.sleep = "HIGH"

\* the state setup() leaves, with spent of the MaxOps requests counted as used
Booted(spent) ==
    /\ \E image \in BootImages :
          /\ g_data = Setup(image)
          /\ eeprom = EepromPut(image, Setup(image))
          /\ g_wifi_mode = WifiMode(Setup(image), TRUE)
    /\ boots = 1
    /\ motor_pins = PinsAfterSetup
    /\ stepper = Configure(NewStepper, g_data)
    /\ pc = "idle"
    /\ requested = 0
    /\ no_rotations = 0
    /\ req = NoRequest
    /\ sent = << >>
    /\ actual = g_data.position_current
    /\ ops = spent

Init == Booted(0)

\* -------------------------------------------------------------- move_motor
\* the left test made against the default threshold
MoveBelowLeft_Default(d, rot) == d.position_current + rot < DEFAULT_POSITION_LEFT

\* "Check if you do not go below the 'left' threshold"
MoveBelowLeft(d, rot) == d.position_current + rot < d.position_left

\* the right test made against the default threshold
MoveAboveRight_Default(d, rot) == d.position_current + rot > DEFAULT_POSITION_RIGHT

\* "Check if you do not go above the 'right' threshold"
MoveAboveRight(d, rot) == d.position_current + rot > d.position_right

\* move_motor returning its argument as it came
ClampedRotations_Unclamped(d, rot) == rot

\* the rotations move_motor really performs
ClampedRotations(d, rot) ==
    IF MoveBelowLeft(d, rot) THEN d.position_left - d.position_current
    ELSE IF MoveAboveRight(d, rot) THEN d.position_right - d.position_current
    ELSE rot

\* move_motor forgetting previous when no threshold is exceeded
PlanMove_KeepPrevious(d, rot) ==
    IF MoveBelowLeft(d, rot)
    THEN [d EXCEPT !.position_current_previous = d.position_current,
                   !.position_current = d.position_left]
    ELSE IF MoveAboveRight(d, rot)
    THEN [d EXCEPT !.position_current_previous = d.position_current,
                   !.position_current = d.position_right]
    ELSE [d EXCEPT !.position_current = d.position_current + rot]

\* the record move_motor writes to EEPROM before it commands the motor
PlanMove(d, rot) ==
    IF MoveBelowLeft(d, rot)
    THEN [d EXCEPT !.position_current_previous = d.position_current,
                   !.position_current = d.position_left]
    ELSE IF MoveAboveRight(d, rot)
    THEN [d EXCEPT !.position_current_previous = d.position_current,
                   !.position_current = d.position_right]
    ELSE [d EXCEPT !.position_current_previous = d.position_current,
                   !.position_current = d.position_current + rot]

Reply(code, body) == [code |-> code, body |-> body, arg |-> << >>]

\* the requests whose value is kept as text (a key, a host name, an SSID);
\* the other values are read as numbers
TextActions == {"set_api", "set_host", "wifi"}

\* loop() has come to its end since the motor came to rest: the pass that
\* served a request, took the last step or followed setup() has made its
\* isRunning() test before server.handleClient() is called again
PassEnded ==
    \/ IsRunning(stepper)
    \/ IF g_data.stepper_motor_and_driver = 0
       THEN ~ motor_pins.outputs
       ELSE motor_pins.sleep = "LOW"

\* a request enters its handler
Begin(path, action, value, auth) ==
    /\ pc = "idle"
    /\ PassEnded
    /\ ops < MaxOps
    /\ ops' = ops + 1
    /\ req' = [path |-> path, action |-> action,
               value |-> IF action \in TextActions THEN << >> ELSE value,
               text |-> IF action \in TextActions THEN value ELSE << >>,
               auth |-> auth, busy |-> IsRunning(stepper)]

\* handle_root tests its buttons in four if / else-if chains; only a button
\* of the last chain keeps the final else (a second page) from running
InLastChain(r) ==
    \/ r.action \in {"set_left", "set_right", "move_total_left",
                     "move_total_right"}
    \/ r.action = "right" /\ r.value = << WebSteps[6] >>

WebReplies(r, first) ==
    IF InLastChain(r) THEN << first >> ELSE << first, Reply(200, "page") >>

\* what the caller of move_motor sends once it has returned rot
ReplyAfterMove(r, rot) ==
    IF r.path = "api"
    THEN IF r.action = "move_motor"
         THEN << [code |-> 200, body |-> "OK performed", arg |-> << rot >>] >>
         ELSE << Reply(200, "OK") >>
    ELSE WebReplies(r, Reply(200, "page"))

\* move_motor without its isRunning() test
MotorBusy_Never(st) == FALSE

\* "If motor is busy with moving, then ignore the request"
MotorBusy(st) == IsRunning(st)

\* move_motor up to EEPROM.commit(): the busy return, or the planned record
\* written to EEPROM
MoveMotorEnter(rot) ==
    IF MotorBusy(stepper)
    THEN /\ sent' = ReplyAfterMove(req', 0)
         /\ UNCHANGED << g_data, eeprom, stepper, pc, requested, no_rotations,
                         actual, g_wifi_mode, boots, motor_pins >>
    ELSE /\ g_data' = PlanMove(g_data, rot)
         /\ requested' = rot
         /\ eeprom' = EepromPut(eeprom, g_data')
         /\ no_rotations' = ClampedRotations(g_data, rot)
         /\ pc' = "move_motor"
         /\ sent' = << >>
         /\ UNCHANGED << stepper, actual, g_wifi_mode, boots, motor_pins >>

\* move_motor from enableOutputs to return, and the caller's response
MoveMotorCommand ==
    /\ pc = "move_motor"
    /\ stepper' = StepperMove(stepper, ToSteps(no_rotations, g_data.steps_per_revolution))
    /\ sent' = ReplyAfterMove(req, no_rotations)
    /\ pc' = "idle"
    /\ motor_pins' = EnableDriver(motor_pins, g_data)
    /\ UNCHANGED << g_data, eeprom, requested, no_rotations, req, actual, ops, g_wifi_mode, boots >>

\* ------------------------------------------------------- restart and loop()
\* whether setup() can join the network: a restart asked for by a request
\* that came in over the network finds it again; after a power loss, or
\* from access point mode, it may be out of reach
ConnectOutcomes ==
    IF g_wifi_mode = 1 /\ req'.path # "none" THEN {TRUE} ELSE BOOLEAN

\* ESP.restart() or power-up: setup() runs on the EEPROM image
Restart(image) ==
    /\ g_data' = Setup(image)
    /\ eeprom' = EepromPut(image, Setup(image))
    /\ stepper' = Configure(NewStepper, Setup(image))
    /\ pc' = "idle"
    /\ \E connected \in ConnectOutcomes :
          g_wifi_mode' = WifiMode(Setup(image), connected)
    /\ boots' = boots + 1
    /\ motor_pins' = PinsAfterSetup
    /\ UNCHANGED << requested, no_rotations >>

\* power is lost and comes back, between two loop passes or inside move_motor
PowerLoss ==
    /\ ops < MaxOps
    /\ ops' = ops + 1
    /\ req' = [NoRequest EXCEPT !.action = "power_loss"]
    /\ sent' = << >>
    /\ Restart(eeprom)
    /\ UNCHANGED actual

Direction(st) == IF st.targetPos > st.currentPos THEN 1 ELSE 0 - 1

DistanceToGo(st) == Abs(st.targetPos - st.currentPos)

\* k loop passes without a request, each taking one step towards the target
Run(k) ==
    /\ stepper' = [stepper EXCEPT !.currentPos = @ + Direction(stepper) * k]
    /\ actual' = actual + Direction(stepper) * k
                          * UnitsPerStep(g_data.steps_per_revolution)
    /\ UNCHANGED << g_data, eeprom, pc, requested, no_rotations, req, sent, ops, g_wifi_mode, boots >>

\* loop passes that leave the motor short of its target
LoopPasses ==
    /\ pc = "idle"
    /\ IsRunning(stepper)
    /\ \E k \in Bursts :
          /\ k < DistanceToGo(stepper)
          /\ Abs(stepper.currentPos) + k <= MaxRaw
          /\ Run(k)
    /\ UNCHANGED motor_pins

\* loop passes that stop calling run() one step before the target
LoopToTarget_Short ==
    /\ pc = "idle"
    /\ IsRunning(stepper)
    /\ Run(DistanceToGo(stepper) - 1)
    /\ UNCHANGED motor_pins

\* loop passes until the motor has reached its target; the pass in which
\* run() takes the last step goes on to find isRunning() == 0
LoopToTarget ==
    /\ pc = "idle"
    /\ IsRunning(stepper)
    /\ Run(DistanceToGo(stepper))
    /\ motor_pins' = DisableDriver(motor_pins, g_data)

\* a loop pass with the motor at rest: the driver is switched off
LoopIdle ==
    /\ pc = "idle"
    /\ ~ IsRunning(stepper)
    /\ ~ PassEnded
    /\ motor_pins' = DisableDriver(motor_pins, g_data)
    /\ UNCHANGED << g_data, eeprom, stepper, pc, requested, no_rotations, req,
                    sent, actual, ops, g_wifi_mode, boots >>

\* --------------------------------------------------------------- handle_api
\* the handler returns without touching the record, the image or the motor
Frame ==
    UNCHANGED << g_data, eeprom, stepper, pc, requested, no_rotations, actual, g_wifi_mode, boots, motor_pins >>

\* the handler changing the record without EEPROM.put / commit
Commit_NoWrite(d) ==
    /\ g_data' = d
    /\ UNCHANGED << eeprom, stepper, pc, requested, no_rotations, g_wifi_mode, boots, motor_pins >>

\* the handler changes the record to d and writes it to EEPROM
Commit(d) ==
    /\ g_data' = d
    /\ eeprom' = EepromPut(eeprom, d)
    /\ UNCHANGED << stepper, pc, requested, no_rotations, g_wifi_mode, boots, motor_pins >>

\* the api parameter differs from the stored key
ApiUnauthorized ==
    \E a \in UnauthorizedApiActions :
       /\ Begin("api", a, << >>, FALSE)
       /\ sent' = << Reply(501, "NOK not authorized") >>
       /\ Frame

\* action reboot restarting whatever its value
ApiReboot_Always ==
    \E restart \in BOOLEAN :
       /\ Begin("api", "reboot", << IF restart THEN 1 ELSE 0 >>, TRUE)
       /\ sent' = << Reply(200, "OK") >>
       /\ Restart(eeprom)
       /\ UNCHANGED actual

\* action reboot: restarts when value is "true"
ApiReboot ==
    \E restart \in BOOLEAN :
       /\ Begin("api", "reboot", << IF restart THEN 1 ELSE 0 >>, TRUE)
       /\ sent' = << Reply(200, "OK") >>
       /\ IF restart THEN Restart(eeprom) ELSE UNCHANGED << g_data, eeprom, stepper, pc, requested, no_rotations, g_wifi_mode, boots, motor_pins >>
       /\ UNCHANGED actual

\* action reset: fills the EEPROM block with 00 and restarts when value is
\* "true"; the record is made anew, the place the curtain is at becomes its
\* position 0
ApiReset ==
    \E erase \in BOOLEAN :
       /\ Begin("api", "reset", << IF erase THEN 1 ELSE 0 >>, TRUE)
       /\ sent' = << Reply(200, "OK") >>
       /\ IF erase
          THEN /\ Restart(ErasedImage)
               /\ actual' = DEFAULT_POSITION_CURRENT
          ELSE Frame

\* reset_left: "Set position left to default"
ResetLeft(d) == [d EXCEPT !.position_left = DEFAULT_POSITION_LEFT]

\* reset_current leaving previous as it is
ResetCurrent_KeepPrevious(d) ==
    [d EXCEPT !.position_current = DEFAULT_POSITION_CURRENT]

\* reset_current: previous and current to their defaults
ResetCurrent(d) ==
    [d EXCEPT !.position_current_previous = DEFAULT_POSITION_CURRENT_PREVIOUS,
              !.position_current = DEFAULT_POSITION_CURRENT]

\* reset_right: "Set position right to default"
ResetRight(d) == [d EXCEPT !.position_right = DEFAULT_POSITION_RIGHT]

ApiResetLeft ==
    /\ Begin("api", "reset_left", << >>, TRUE)
    /\ Commit(ResetLeft(g_data))
    /\ sent' = << Reply(200, "OK left default") >>
    /\ UNCHANGED actual

\* the position the curtain is at is declared to be position 0
ApiResetCurrent ==
    /\ Begin("api", "reset_current", << >>, TRUE)
    /\ Commit(ResetCurrent(g_data))
    /\ sent' = << Reply(200, "OK current default") >>
    /\ actual' = DEFAULT_POSITION_CURRENT

ApiResetRight ==
    /\ Begin("api", "reset_right", << >>, TRUE)
    /\ Commit(ResetRight(g_data))
    /\ sent' = << Reply(200, "OK right default") >>
    /\ UNCHANGED actual

\* the threshold a set_left / set_right request asks for
RequestedThreshold(d, value) ==
    IF value = << >> THEN d.position_current ELSE value[1]

\* set_left testing the new threshold against right only
SetLeftRejected_RightOnly(d, v) == v > d.position_right

\* "Safety check" of API set_left
SetLeftRejected(d, v) == v > d.position_right \/ v > d.position_current

\* "Safety check" of API set_right
SetRightRejected(d, v) == v < d.position_left \/ v < d.position_current

SetLeft(d, v) == [d EXCEPT !.position_left = v]

SetRight(d, v) == [d EXCEPT !.position_right = v]

OptionalThreshold == {<< >>} \cup {<< v >> : v \in ThresholdValues}

ApiSetLeft ==
    \E value \in OptionalThreshold :
       LET v == RequestedThreshold(g_data, value) IN
       /\ Begin("api", "set_left", value, TRUE)
       /\ IF SetLeftRejected(g_data, v)
          THEN /\ sent' = << Reply(501, "NOK left bigger") >>
               /\ Frame
          ELSE /\ Commit(SetLeft(g_data, v))
               /\ sent' = << [code |-> 200, body |-> "OK left set", arg |-> << v >>] >>
               /\ UNCHANGED actual

ApiSetRight ==
    \E value \in OptionalThreshold :
       LET v == RequestedThreshold(g_data, value) IN
       /\ Begin("api", "set_right", value, TRUE)
       /\ IF SetRightRejected(g_data, v)
          THEN /\ sent' = << Reply(501, "NOK right smaller") >>
               /\ Frame
          ELSE /\ Commit(SetRight(g_data, v))
               /\ sent' = << [code |-> 200, body |-> "OK right set", arg |-> << v >>] >>
               /\ UNCHANGED actual

ApiMoveMotor ==
    \E value \in {<< >>} \cup {<< r >> : r \in ApiDeltas} :
       /\ Begin("api", "move_motor", value, TRUE)
       /\ IF value = << >>
          THEN /\ sent' = << Reply(501, "NOK no value") >>
               /\ Frame
          ELSE MoveMotorEnter(value[1])

\* move_total_left without its calibration test
LeftNotSet_Never(d) == FALSE

\* fabs(position_left - DEFAULT_POSITION_LEFT) < g_epsilon
LeftNotSet(d) == FabsLessEpsilon(d.position_left - DEFAULT_POSITION_LEFT)

\* fabs(position_right - DEFAULT_POSITION_RIGHT) < g_epsilon
RightNotSet(d) == FabsLessEpsilon(d.position_right - DEFAULT_POSITION_RIGHT)

\* the rotations move_total_left / move_total_right pass to move_motor
TotalLeftRotations(d) == DEFAULT_POSITION_LEFT

TotalRightRotations(d) == DEFAULT_POSITION_RIGHT

ApiMoveTotalLeft ==
    /\ Begin("api", "move_total_left", << >>, TRUE)
    /\ IF LeftNotSet(g_data)
       THEN /\ sent' = << Reply(501, "NOK left not set") >>
            /\ Frame
       ELSE MoveMotorEnter(TotalLeftRotations(g_data))

ApiMoveTotalRight ==
    /\ Begin("api", "move_total_right", << >>, TRUE)
    /\ IF RightNotSet(g_data)
       THEN /\ sent' = << Reply(501, "NOK right not set") >>
            /\ Frame
       ELSE MoveMotorEnter(TotalRightRotations(g_data))

\* "Check if motor even moved"
MotorMoved(raw, spr) ==
    /\ PositionsMoved(raw, spr) # << >>
    /\ FabsGreaterEpsilon(PositionsMoved(raw, spr)[1])

\* stop_motor adding the travelled rotations to the planned current
StopMotor_FromCurrent(d, raw) ==
    IF MotorMoved(raw, d.steps_per_revolution)
    THEN [d EXCEPT !.position_current =
             d.position_current
             + PositionsMoved(raw, d.steps_per_revolution)[1]]
    ELSE d

\* the record after stop_motor read raw from currentPosition()
StopMotor(d, raw) ==
    IF MotorMoved(raw, d.steps_per_revolution)
    THEN [d EXCEPT !.position_current =
             d.position_current_previous
             + PositionsMoved(raw, d.steps_per_revolution)[1]]
    ELSE d

\* the EEPROM image after stop_motor: written when the motor had moved
StopImage(image, d, raw) ==
    IF MotorMoved(raw, d.steps_per_revolution)
    THEN EepromPut(image, StopMotor(d, raw))
    ELSE image

\* stop(), reconcile, setCurrentPosition(0)
StopEffect ==
    /\ g_data' = StopMotor(g_data, stepper.currentPos)
    /\ eeprom' = StopImage(eeprom, g_data, stepper.currentPos)
    /\ stepper' = SetCurrentPositionZero(stepper)
    /\ UNCHANGED << pc, requested, no_rotations, actual, g_wifi_mode, boots, motor_pins >>

ApiStopMotor ==
    /\ Begin("api", "stop_motor", << >>, TRUE)
    /\ StopEffect
    /\ sent' = << Reply(200, "OK") >>

ApiUnknown ==
    /\ Begin("api", "unknown", << >>, TRUE)
    /\ sent' = << Reply(501, "NOK unknown action") >>
    /\ Frame

\* set_api whatever apikey_set says
SetApiAllowed_Always(d, api) == api # g_default_api_key

\* "only possible when not already set": apikey_set == 0 and
\* strcmp(api, g_default_api_key) non-zero, i.e. api differs from the default
SetApiAllowed(d, api) == d.apikey_set = 0 /\ api # g_default_api_key

\* Len(api) > LENGTH_API_KEY
KeyTooLong(api) == Len(api) > LENGTH_API_KEY

\* the settings after the set_api block
SetApi(d, api, value) ==
    IF SetApiAllowed(d, api) /\ ~ KeyTooLong(api)
    THEN [d EXCEPT !.apikey = value, !.apikey_set = 1]
    ELSE d

\* what the set_api block sends
SetApiReplies(d, api) ==
    IF ~ SetApiAllowed(d, api) THEN << >>
    ELSE IF KeyTooLong(api) THEN << Reply(501, "NOK key too long") >>
    ELSE << Reply(200, "OK key set") >>

\* after the set_api block the request runs into the key check and, with
\* the key valid, through the action chain to its final else
AfterSetApi(d, api) ==
    IF api # d.apikey THEN Reply(501, "NOK not authorized")
    ELSE Reply(501, "NOK unknown action")

\* action set_api
ApiSetApi ==
    \E r \in SetApiRequests :
       LET api == r.api
           value == r.value
       IN
       /\ Begin("api", "set_api", << value >>, api = g_data.apikey)
       /\ g_data' = SetApi(g_data, api, value)
       /\ eeprom' = IF SetApiAllowed(g_data, api) /\ ~ KeyTooLong(api)
                    THEN EepromPut(eeprom, g_data')
                    ELSE eeprom
       /\ sent' = SetApiReplies(g_data, api) \o << AfterSetApi(g_data', api) >>
       /\ UNCHANGED << stepper, pc, requested, no_rotations, actual, g_wifi_mode, boots, motor_pins >>

\* action set_host
ApiSetHost ==
    \E value \in HostValues :
       /\ Begin("api", "set_host", value, TRUE)
       /\ IF value = << >>
          THEN /\ sent' = << Reply(501, "NOK no hostname") >>
               /\ Frame
          ELSE /\ Commit([g_data EXCEPT !.hostname = value[1]])
               /\ sent' = << Reply(200, "OK hostname set") >>
               /\ UNCHANGED actual

\* String::toInt / toFloat of the value: 0 for the empty string
ToNumber(value) == IF value = << >> THEN 0 ELSE value[1]

\* the language set_language stores: English for no or an unknown language
SetLanguage(d, value) ==
    IF value = << >> THEN [d EXCEPT !.language = 0]
    ELSE IF ToNumber(value) < 0 \/ ToNumber(value) > 1
    THEN [d EXCEPT !.language = 0]
    ELSE [d EXCEPT !.language = ToNumber(value)]

\* action set_language
ApiSetLanguage ==
    \E value \in LanguageValues :
       /\ Begin("api", "set_language", value, TRUE)
       /\ Commit(SetLanguage(g_data, value))
       /\ sent' = IF value = << >>
                  THEN << Reply(501, "NOK no language") >>
                  ELSE IF ToNumber(value) < 0 \/ ToNumber(value) > 1
                  THEN << Reply(501, "NOK unknown language") >>
                  ELSE << Reply(200, "OK language set") >>
       /\ UNCHANGED actual

\* the settings d written to EEPROM, then setAcceleration and setMaxSpeed
\* called with the stored values, as both motor parameter actions do
SetMotorParameters(d) ==
    /\ g_data' = d
    /\ eeprom' = EepromPut(eeprom, d)
    /\ stepper' = Configure(stepper, d)
    /\ UNCHANGED << pc, requested, no_rotations, actual, g_wifi_mode, boots, motor_pins >>

\* action motor_acceleration: value.toFloat() stored, both parameters applied
ApiMotorAcceleration ==
    \E value \in AccelerationValues :
       /\ Begin("api", "motor_acceleration", value, TRUE)
       /\ SetMotorParameters([g_data EXCEPT
                                 !.motor_acceleration = ToNumber(value)])
       /\ sent' = << Reply(200, "OK") >>

\* action motor_max_speed: stored and handed to setMaxSpeed
ApiMotorMaxSpeed ==
    \E value \in MaxSpeedValues :
       /\ Begin("api", "motor_max_speed", value, TRUE)
       /\ SetMotorParameters([g_data EXCEPT
                                 !.motor_max_speed = ToNumber(value)])
       /\ sent' = << Reply(200, "OK") >>

\* -------------------------------------------------------------- handle_root
\* a request for "/" reaches handle_root in WiFi mode only
Root(action, value, cookie) ==
    /\ g_wifi_mode = 1
    /\ Begin("web", action, value, cookie)

\* no valid login cookie: redirect to /login, nothing else happens
WebUnauthorized ==
    \E b \in UnauthorizedWebButtons :
       /\ Root(b, << >>, FALSE)
       /\ sent' = << Reply(301, "login"), Reply(200, "Unauthorized") >>
       /\ Frame

\* no button, or one that only navigates: the page is sent
WebPage ==
    /\ Root("page", << >>, TRUE)
    /\ sent' = << Reply(200, "page") >>
    /\ Frame

handle_reset_left ==
    /\ Root("reset_left", << >>, TRUE)
    /\ Commit(ResetLeft(g_data))
    /\ sent' = WebReplies(req', Reply(200, "page"))
    /\ UNCHANGED actual

handle_reset_current ==
    /\ Root("reset_current", << >>, TRUE)
    /\ Commit(ResetCurrent(g_data))
    /\ sent' = WebReplies(req', Reply(200, "page"))
    /\ actual' = DEFAULT_POSITION_CURRENT

handle_reset_right ==
    /\ Root("reset_right", << >>, TRUE)
    /\ Commit(ResetRight(g_data))
    /\ sent' = WebReplies(req', Reply(200, "page"))
    /\ UNCHANGED actual

\* a left button that sets current and commands the motor itself
handle_move_left_Direct ==
    \E i \in PressedSteps :
       /\ Root("left", << WebSteps[i] >>, TRUE)
       /\ Commit([g_data EXCEPT !.position_current = @ - WebSteps[i]])
       /\ sent' = << Reply(200, "page") >>
       /\ UNCHANGED actual

\* a left button: handle_root calls handle_move_left(-0.1) ... (-100.0),
\* which calls move_motor(rotations)
handle_move_left ==
    \E i \in PressedSteps :
       /\ Root("left", << WebSteps[i] >>, TRUE)
       /\ MoveMotorEnter(0 - WebSteps[i])

\* a right button: handle_move_right(0.1) ... (100.0), move_motor(rotations)
handle_move_right ==
    \E i \in PressedSteps :
       /\ Root("right", << WebSteps[i] >>, TRUE)
       /\ MoveMotorEnter(WebSteps[i])

\* the web button sets the threshold to the current position, unchecked
WebSetLeft(d) == [d EXCEPT !.position_left = d.position_current]

WebSetRight(d) == [d EXCEPT !.position_right = d.position_current]

handle_set_left ==
    /\ Root("set_left", << >>, TRUE)
    /\ Commit(WebSetLeft(g_data))
    /\ sent' = WebReplies(req', Reply(200, "page"))
    /\ UNCHANGED actual

handle_set_right ==
    /\ Root("set_right", << >>, TRUE)
    /\ Commit(WebSetRight(g_data))
    /\ sent' = WebReplies(req', Reply(200, "page"))
    /\ UNCHANGED actual

handle_move_total_left ==
    /\ Root("move_total_left", << >>, TRUE)
    /\ IF LeftNotSet(g_data)
       THEN /\ sent' = WebReplies(req', Reply(501, "page"))
            /\ Frame
       ELSE MoveMotorEnter(TotalLeftRotations(g_data))

handle_move_total_right ==
    /\ Root("move_total_right", << >>, TRUE)
    /\ IF RightNotSet(g_data)
       THEN /\ sent' = WebReplies(req', Reply(501, "page"))
            /\ Frame
       ELSE MoveMotorEnter(TotalRightRotations(g_data))

\* the stop_motor button: handle_root tests it in its third and again in its
\* last chain, so handle_stop_motor runs twice and sends the page twice
handle_stop_motor ==
    /\ Root("stop_motor", << >>, TRUE)
    /\ LET raw1 == stepper.currentPos
           d1   == StopMotor(g_data, raw1)
           st1  == SetCurrentPositionZero(stepper)
           raw2 == st1.currentPos
       IN  /\ g_data' = StopMotor(d1, raw2)
           /\ eeprom' = StopImage(StopImage(eeprom, g_data, raw1), d1, raw2)
           /\ stepper' = SetCurrentPositionZero(st1)
    /\ sent' = << Reply(200, "page"), Reply(200, "page") >>
    /\ UNCHANGED << pc, requested, no_rotations, actual, g_wifi_mode, boots, motor_pins >>

\* /erase, asked for without a login cookie (the handler looks at none):
\* the EEPROM block is zeroed and the board restarts
handle_erase ==
    /\ Begin("web", "erase", << >>, FALSE)
    /\ sent' = << Reply(200, "OK") >>
    /\ Restart(ErasedImage)
    /\ actual' = DEFAULT_POSITION_CURRENT

\* "/" in access point mode: the WiFi dialog is sent
handle_wifi_html ==
    /\ g_wifi_mode = 0
    /\ Begin("web", "wifi_page", << >>, FALSE)
    /\ sent' = << Reply(200, "wifi page") >>
    /\ Frame

\* /wifi_ajax, form = wifi: stores the credentials and restarts
handle_wifi_ajax ==
    \E form \in WifiForms :
       /\ Begin("web", "wifi", << form.ssid >>, FALSE)
       /\ sent' = << Reply(200, "OK") >>
       /\ Restart(EepromPut(eeprom, [g_data EXCEPT !.ssid = form.ssid,
                                                   !.password = form.password]))
       /\ UNCHANGED actual

\* /upgradefw2 after an upload without error: answers OK and restarts (the
\* firmware uploaded is taken to be this firmware)
handle_upgradefw2 ==
    /\ Begin("web", "upgradefw2", << >>, TRUE)
    /\ sent' = << Reply(200, "OK") >>
    /\ Restart(eeprom)
    /\ UNCHANGED actual

\* /settings_ajax, form = settings: stores the form's fields, selects the
\* motor profile, creates the AccelStepper object anew and writes the
\* settings.  The form is sent with host name, language, acceleration and
\* maximum speed as the settings page shows them (the stored values).
handle_settings_ajax ==
    \E form \in SettingsForms :
       /\ Begin("web", "settings", << form.kind >>, form.cookie)
       /\ g_data' = [g_data EXCEPT
                        !.apikey = IF form.retyped THEN FormKey ELSE @,
                        !.stepper_motor_and_driver = form.kind,
                        !.steps_per_revolution = ProfileSteps(form.kind)]
       /\ eeprom' = EepromPut(eeprom, g_data')
       /\ stepper' = Configure(NewStepper, g_data')
       /\ motor_pins' = [motor_pins EXCEPT !.outputs = TRUE]
       /\ sent' = << Reply(301, "redirect") >>
       /\ UNCHANGED << pc, requested, no_rotations, actual, g_wifi_mode, boots >>

\* --------------------------------------------------------------------- spec
Next ==
    \/ MoveMotorCommand
    \/ PowerLoss
    \/ LoopPasses
    \/ LoopToTarget
    \/ LoopIdle
    \/ ApiUnauthorized
    \/ ApiReboot
    \/ ApiReset
    \/ ApiResetLeft
    \/ ApiResetCurrent
    \/ ApiResetRight
    \/ ApiSetLeft
    \/ ApiSetRight
    \/ ApiMoveMotor
    \/ ApiMoveTotalLeft
    \/ ApiMoveTotalRight
    \/ ApiStopMotor
    \/ ApiUnknown
    \/ ApiSetApi
    \/ ApiSetHost
    \/ ApiSetLanguage
    \/ ApiMotorAcceleration
    \/ ApiMotorMaxSpeed
    \/ WebUnauthorized
    \/ WebPage
    \/ handle_reset_left
    \/ handle_reset_current
    \/ handle_reset_right
    \/ handle_move_left
    \/ handle_move_right
    \/ handle_set_left
    \/ handle_set_right
    \/ handle_move_total_left
    \/ handle_move_total_right
    \/ handle_stop_motor
    \/ handle_erase
    \/ handle_settings_ajax
    \/ handle_wifi_html
    \/ handle_wifi_ajax
    \/ handle_upgradefw2

Spec == Init /\ [][Next]_vars

TypeOK ==
    /\ pc \in {"idle", "move_motor"}
    /\ ops \in 0 .. MaxOps
    /\ g_wifi_mode \in {0, 1}
    /\ boots \in 1 .. MaxOps + 1
    /\ motor_pins \in [outputs : BOOLEAN, sleep : {"unset", "HIGH", "LOW"}]
    /\ stepper.currentPos \in Int /\ stepper.targetPos \in Int
    /\ stepper.acceleration \in Nat /\ stepper.maxSpeed \in Nat
    /\ g_data.steps_per_revolution
          \in {0, STEPS_PER_REVOLUTION_28BYJ, STEPS_PER_REVOLUTION_NEMA17}

\* ------------------------------------------------------------------ claims
InBounds(d) ==
    /\ d.position_left <= d.position_current
    /\ d.position_current <= d.position_right
    /\ d.position_left <= d.position_right

MoveActions ==
    {"move_motor", "left", "right", "move_total_left", "move_total_right"}

\* this step is the arrival of an authorised request
Arrives == ops' = ops + 1 /\ req'.auth

\* this step is move_motor accepting a move (record planned and written)
Accepts == pc = "idle" /\ pc' = "move_motor"

\* this step is move_motor handing the move to the motor
Commands == pc = "move_motor" /\ pc' = "idle" /\ ops' = ops

\* C1: in every reachable state the record satisfies
\* left <= current <= right and left <= right.
C1_PositionInvariant == InBounds(g_data)

\* C2: from a record with left <= current <= right, an accepted move yields a
\* current inside [left, right]; the rotations it returns are new current
\* minus old current, namely left - current below left, right - current above
\* right and the requested rotations otherwise; the motor is commanded with
\* the whole steps of exactly these rotations.
C2_ClampedMove ==
    [][ /\ (Accepts /\ InBounds(g_data)) =>
            LET old == g_data.position_current
                new == g_data'.position_current
                lo  == g_data.position_left
                hi  == g_data.position_right
            IN  /\ lo <= new /\ new <= hi
                /\ no_rotations' = new - old
                /\ (old + requested' < lo) => (no_rotations' = lo - old)
                /\ (old + requested' > hi) => (no_rotations' = hi - old)
                /\ (lo <= old + requested' /\ old + requested' <= hi)
                      => (no_rotations' = requested')
        /\ (Commands /\ g_data.steps_per_revolution # 0) =>
            LET ups == Unit \div g_data.steps_per_revolution
                t   == stepper'.targetPos
            IN  /\ stepper'.currentPos = 0
                /\ Abs(t) * ups <= Abs(no_rotations)
                /\ Abs(no_rotations) < (Abs(t) + 1) * ups
                /\ (t > 0 => no_rotations > 0) /\ (t < 0 => no_rotations < 0)
      ]_vars

\* an accepted move that was clamped at a threshold, about to be commanded
C2_Witness ==
    /\ pc = "move_motor"
    /\ no_rotations # requested
    /\ no_rotations # 0
    /\ g_data.steps_per_revolution # 0
    /\ InBounds(g_data)

\* C3: while the motor is running, a move request leaves the record, the
\* EEPROM image, the raw step counter and the motor's target unchanged.
C3_BusyGuard ==
    [][ (Arrives /\ req'.action \in MoveActions /\ IsRunning(stepper)) =>
            /\ g_data' = g_data
            /\ eeprom' = eeprom
            /\ stepper' = stepper
            /\ pc' = "idle"
      ]_vars

\* a web step button was pressed while the motor was on its way
C3_Witness ==
    /\ req.auth /\ req.busy
    /\ req.path = "web" /\ req.action = "left"
    /\ IsRunning(stepper)
    /\ stepper.currentPos # 0

\* C4: stop_motor during a move, raw step counter s # 0, sets
\* current = previous + s / steps_per_revolution and writes that record.
C4_StopMidMove ==
    [][ (Arrives /\ req'.action = "stop_motor" /\ IsRunning(stepper)
           /\ stepper.currentPos # 0) =>
            /\ g_data'.position_current - g_data.position_current_previous
                  = stepper.currentPos * (Unit \div g_data.steps_per_revolution)
            /\ g_data'.position_current_previous
                  = g_data.position_current_previous
            /\ eeprom' = g_data'
      ]_vars

\* previous = 10.0, 200 steps per revolution, stopped at 150 raw steps of a
\* move of 50 rotations: current = 10.75
C4_Witness ==
    /\ req.action = "stop_motor" /\ req.auth /\ req.busy
    /\ g_data.steps_per_revolution = 200
    /\ requested = 50 * Unit
    /\ g_data.position_current_previous = 10 * Unit
    /\ 4 * g_data.position_current = 43 * Unit
    /\ eeprom = g_data

\* C5: an accepted move writes the planned record (previous = old current,
\* current = old current + clamped rotations) to EEPROM without touching the
\* motor, and the motor receives a move only afterwards, with that record
\* already in EEPROM.
C5_PersistBeforeCommand ==
    [][ /\ Accepts =>
            /\ eeprom'.position_current_previous = g_data.position_current
            /\ eeprom'.position_current
                  = g_data.position_current + no_rotations'
            /\ stepper' = stepper
        /\ (stepper'.targetPos # stepper.targetPos /\ stepper'.targetPos # 0) =>
            /\ Commands
            /\ eeprom.position_current
                  = eeprom.position_current_previous + no_rotations
            /\ eeprom = g_data
      ]_vars

\* the motor has just been given a move and has not stepped yet
C5_Witness ==
    /\ pc = "idle"
    /\ req.action \in MoveActions /\ req.auth /\ ~ req.busy
    /\ stepper.currentPos = 0 /\ stepper.targetPos # 0
    /\ eeprom.position_current # eeprom.position_current_previous

\* C6: whenever the motor is idle the persisted current is the position the
\* motor is actually at.
C6_PersistedIsActual ==
    (pc = "idle" /\ ~ IsRunning(stepper)) => eeprom.position_current = actual

\* C7: move_total_left (right) with the motor idle and the threshold
\* calibrated ends with current = left (right) and rotations left - current
\* (right - current).
C7_MoveTotal ==
    [][ /\ (Accepts /\ req'.action = "move_total_left") =>
            /\ g_data'.position_current = g_data.position_left
            /\ no_rotations' = g_data.position_left - g_data.position_current
        /\ (Accepts /\ req'.action = "move_total_right") =>
            /\ g_data'.position_current = g_data.position_right
            /\ no_rotations' = g_data.position_right - g_data.position_current
      ]_vars

\* C8: move_total_left with left = -100.0, and move_total_right with
\* right = +100.0, is answered with an error, changes neither record nor
\* EEPROM and commands nothing.
C8_CalibrationGate ==
    [][ (Arrives /\
           \/ /\ req'.action = "move_total_left"
              /\ g_data.position_left = (0 - 100) * Unit
           \/ /\ req'.action = "move_total_right"
              /\ g_data.position_right = 100 * Unit) =>
            /\ sent' # << >> /\ sent'[1].code = 501
            /\ g_data' = g_data
            /\ eeprom' = eeprom
            /\ stepper' = stepper
            /\ pc' = "idle"
      ]_vars

\* a total move was refused although the other threshold is calibrated
C8_Witness ==
    /\ req.auth /\ ~ req.busy
    /\ req.action = "move_total_left" /\ req.path = "web"
    /\ pc = "idle"
    /\ sent[1].code = 501
    /\ g_data.position_left = (0 - 100) * Unit
    /\ g_data.position_right # 100 * Unit

\* C9: API set_left(v) is rejected without state change exactly when
\* v > right or v > current and otherwise sets and writes left = v only;
\* API set_right(v) likewise for v < left or v < current.
C9_ApiSetThreshold ==
    [][ /\ (Arrives /\ req'.path = "api" /\ req'.action = "set_left") =>
            LET v == IF req'.value = << >> THEN g_data.position_current
                     ELSE req'.value[1]
            IN  IF v > g_data.position_right \/ v > g_data.position_current
                THEN /\ sent' # << >> /\ sent'[1].code = 501
                     /\ g_data' = g_data /\ eeprom' = eeprom
                ELSE /\ sent' # << >> /\ sent'[1].code = 200
                     /\ g_data' = [g_data EXCEPT !.position_left = v]
                     /\ eeprom' = g_data'
        /\ (Arrives /\ req'.path = "api" /\ req'.action = "set_right") =>
            LET v == IF req'.value = << >> THEN g_data.position_current
                     ELSE req'.value[1]
            IN  IF v < g_data.position_left \/ v < g_data.position_current
                THEN /\ sent' # << >> /\ sent'[1].code = 501
                     /\ g_data' = g_data /\ eeprom' = eeprom
                ELSE /\ sent' # << >> /\ sent'[1].code = 200
                     /\ g_data' = [g_data EXCEPT !.position_right = v]
                     /\ eeprom' = g_data'
      ]_vars

\* set_left with a value between current and right was rejected
C9_Witness ==
    /\ req.auth /\ req.path = "api" /\ req.action = "set_left"
    /\ req.value # << >>
    /\ sent[1].code = 501
    /\ req.value[1] > g_data.position_current
    /\ req.value[1] <= g_data.position_right

\* C10: after a set_left or set_right that was carried out, API or web, the
\* record has left <= right, and left <= current (set_left),
\* current <= right (set_right).
C10_ThresholdOrdering ==
    [][ /\ (Arrives /\ req'.action = "set_left" /\ sent'[1].code = 200) =>
            /\ g_data'.position_left <= g_data'.position_right
            /\ g_data'.position_left <= g_data'.position_current
        /\ (Arrives /\ req'.action = "set_right" /\ sent'[1].code = 200) =>
            /\ g_data'.position_left <= g_data'.position_right
            /\ g_data'.position_current <= g_data'.position_right
      ]_vars

\* this step is loop passes under which the motor reaches its target
Finishes ==
    /\ pc = "idle" /\ ops' = ops
    /\ IsRunning(stepper) /\ ~ IsRunning(stepper')

\* C11: on the loop pass in which the motor goes from moving to idle, current
\* is recomputed from the raw step counter, the record is written and the raw
\* step counter is reset to zero.
C11_LoopReconciles ==
    [][ Finishes =>
            /\ stepper'.currentPos = 0
            /\ eeprom' = g_data'
            /\ g_data.steps_per_revolution # 0
            /\ g_data'.position_current - g_data.position_current_previous
                  = stepper.targetPos * (Unit \div g_data.steps_per_revolution)
      ]_vars

\* C12: stop_motor with the motor idle changes neither left, previous,
\* current, right nor the EEPROM image and is answered with a success.
C12_StopWhenIdle ==
    [][ (Arrives /\ req'.action = "stop_motor" /\ ~ IsRunning(stepper)) =>
            /\ g_data' = g_data
            /\ eeprom' = eeprom
            /\ sent' # << >> /\ sent'[1].code = 200
      ]_vars

\* this step is stop_motor being carried out
Stops == Arrives /\ req'.action = "stop_motor"

\* C13 as claimed: after every accepted move and after every stop_motor,
\* previous is the value current had immediately before the operation.
C13_PreviousIsOldCurrent ==
    [][ (Accepts \/ Stops) =>
            g_data'.position_current_previous = g_data.position_current
      ]_vars

\* C13 as amended: after every accepted move previous is the value current
\* had immediately before it; stop_motor leaves previous as it was, the
\* position at which the stopped move started.
C13_PreviousAmended ==
    [][ /\ Accepts =>
            g_data'.position_current_previous = g_data.position_current
        /\ Stops =>
            g_data'.position_current_previous = g_data.position_current_previous
      ]_vars

\* a move was stopped on its way: previous is where it started, current where
\* it stands, and neither is the destination the move had planned
C13_Witness ==
    /\ req.action = "stop_motor" /\ req.auth /\ req.busy
    /\ g_data.position_current # g_data.position_current_previous
    /\ g_data.position_current
          # g_data.position_current_previous + no_rotations
    /\ no_rotations = requested /\ requested # 0

\* the four positions of a record
Positions(d) ==
    << d.position_left, d.position_current_previous, d.position_current,
       d.position_right >>

\* C14: from {left -100, previous 0, current 0, right 100}, motor idle,
\* set_left without value gives left = 0; a move by 50 then gives
\* {0, 0, 50, 100} unclamped; with the motor idle again a move by -100 is
\* clamped to -50 and gives {0, 50, 0, 100}.
C14_Scenario ==
    [][ /\ (Arrives /\ req'.path = "api" /\ req'.action = "set_left"
             /\ req'.value = << >> /\ ~ IsRunning(stepper)
             /\ Positions(g_data)
                   = << (0 - 100) * Unit, 0, 0, 100 * Unit >>) =>
               Positions(g_data') = << 0, 0, 0, 100 * Unit >>
        /\ (Arrives /\ req'.action = "move_motor"
             /\ req'.value = << 50 * Unit >> /\ ~ IsRunning(stepper)
             /\ Positions(g_data) = << 0, 0, 0, 100 * Unit >>) =>
               /\ Positions(g_data') = << 0, 0, 50 * Unit, 100 * Unit >>
               /\ no_rotations' = 50 * Unit
        /\ (Arrives /\ req'.action = "move_motor"
             /\ req'.value = << (0 - 100) * Unit >> /\ ~ IsRunning(stepper)
             /\ Positions(g_data) = << 0, 0, 50 * Unit, 100 * Unit >>) =>
               /\ Positions(g_data') = << 0, 50 * Unit, 0, 100 * Unit >>
               /\ no_rotations' = (0 - 50) * Unit
      ]_vars

\* the end of the scenario: the third request has been carried out
C14_Witness ==
    /\ ops = 3 /\ pc = "idle"
    /\ req.action = "move_motor" /\ req.value = << (0 - 100) * Unit >>
    /\ ~ req.busy
    /\ Positions(g_data) = << 0, 50 * Unit, 0, 100 * Unit >>
    /\ eeprom = g_data
    /\ no_rotations = (0 - 50) * Unit
    /\ stepper.targetPos # 0

\* C18: an API move request that finds the motor running gets an answer
\* that differs from the answer of a move that was carried out with a
\* clamped delta of 0.
C18_BusyAnswer ==
    [][ (Arrives /\ req'.path = "api" /\ IsRunning(stepper)
           /\ \/ req'.action = "move_motor" /\ req'.value # << >>
              \/ req'.action = "move_total_left" /\ ~ LeftNotSet(g_data)
              \/ req'.action = "move_total_right" /\ ~ RightNotSet(g_data)) =>
            /\ sent' # << >>
            /\ sent' # ReplyAfterMove(req', 0)
      ]_vars

\* this step is the arrival of a request, authorised or not
Requested == pc = "idle" /\ ops' = ops + 1 /\ req'.path # "none"

\* C15: an /api request whose api parameter differs from the stored key
\* changes no persisted setting, neither commands nor stops the motor and
\* does not restart the device, whatever its action, set_api included.
C15_WrongKeyNoEffect ==
    [][ (Requested /\ req'.path = "api" /\ ~ req'.auth) =>
            /\ g_data' = g_data
            /\ eeprom' = eeprom
            /\ stepper' = stepper
            /\ pc' = "idle"
      ]_vars

C17_NoCookieNoEffect ==
    [][ (Requested /\ req'.path = "web" /\ ~ req'.auth) =>
            /\ g_data' = g_data
            /\ eeprom' = eeprom
            /\ stepper' = stepper
      ]_vars

\* the unknown-action answer is among the responses
UnknownSent(responses) ==
    \E i \in 1 .. Len(responses) :
       responses[i] = Reply(501, "NOK unknown action")

\* C19: an /api request answered with the unknown-action error has changed
\* nothing: settings, EEPROM image, motor target and raw step counter are
\* as before.
C19_UnknownNoEffect ==
    [][ (Requested /\ req'.path = "api" /\ UnknownSent(sent')) =>
            /\ g_data' = g_data
            /\ eeprom' = eeprom
            /\ stepper' = stepper
      ]_vars

\* the API actions that require a value
ValueActions ==
    {"move_motor", "motor_acceleration", "motor_max_speed", "set_host",
     "set_language"}

\* C20: an authorised API action that requires a value, called with an
\* empty value, reports an error and leaves settings, EEPROM image and motor
\* unchanged.
C20_MissingValue ==
    [][ (Arrives /\ req'.path = "api" /\ req'.action \in ValueActions
           /\ req'.value = << >> /\ req'.text = << >>) =>
            /\ sent' # << >> /\ sent'[1].code = 501
            /\ g_data' = g_data
            /\ eeprom' = eeprom
            /\ stepper' = stepper
      ]_vars

ResetActions == {"reset_left", "reset_current", "reset_right"}

\* C22: reset_left, reset_right and reset_current succeed in any state, motor
\* idle or moving, from the API and from the web page; each sets exactly its
\* own field(s) to the defaults (left -100, right +100, current = previous
\* = 0), leaves the other fields and the motor alone, and a reset that
\* follows the same reset changes nothing.
C22_Resets ==
    [][ (Arrives /\ req'.action \in ResetActions) =>
            /\ sent' # << >> /\ sent'[1].code = 200
            /\ req'.action = "reset_left" =>
                   g_data' = [g_data EXCEPT !.position_left = (0 - 100) * Unit]
            /\ req'.action = "reset_right" =>
                   g_data' = [g_data EXCEPT !.position_right = 100 * Unit]
            /\ req'.action = "reset_current" =>
                   g_data' = [g_data EXCEPT !.position_current_previous = 0,
                                            !.position_current = 0]
            /\ eeprom' = g_data'
            /\ stepper' = stepper
            /\ (req.auth /\ req.action = req'.action) => g_data' = g_data
      ]_vars

\* the web page's reset_current has been served while the motor was running
\* on a calibrated record: current and previous are 0, the thresholds stay
C22_Witness ==
    /\ req.path = "web" /\ req.action = "reset_current" /\ req.auth
    /\ sent # << >> /\ sent[1].code = 200
    /\ IsRunning(stepper)
    /\ g_data.position_current = 0 /\ g_data.position_current_previous = 0
    /\ g_data.position_left = 10 * Unit /\ g_data.position_right = 60 * Unit

\* a restart that finds the settings of this firmware version in EEPROM
RestartsOnStored ==
    /\ ops' = ops + 1
    /\ \/ req'.action \in {"power_loss", "upgradefw2", "wifi"}
       \/ req'.action = "reboot" /\ req'.auth /\ req'.value = << 1 >>

\* a restart that finds the erased EEPROM block (stored version 0)
RestartsOnErased ==
    /\ ops' = ops + 1
    /\ \/ req'.action = "erase"
       \/ req'.action = "reset" /\ req'.auth /\ req'.value = << 1 >>

\* C23: at startup with the stored major version equal to the firmware's,
\* the four position fields are loaded from the EEPROM unchanged and stay
\* in the EEPROM as they were; with a different stored version (erased
\* settings) the record is created as left -100, previous 0, current 0,
\* right +100 and written to the EEPROM.
C23_Startup ==
    [][ /\ RestartsOnStored =>
              /\ eeprom.version = CurrentMajorVersion
              /\ Positions(g_data') = Positions(eeprom)
              /\ Positions(eeprom') = Positions(eeprom)
        /\ RestartsOnErased =>
              /\ Positions(g_data') =
                    << (0 - 100) * Unit, 0, 0, 100 * Unit >>
              /\ g_data'.version = CurrentMajorVersion
              /\ eeprom' = g_data'
      ]_vars

\* the board has restarted on reboot with a calibrated record in EEPROM: the
\* record in memory is the calibrated one, the driver object is fresh
C23_Witness ==
    /\ req.action = "reboot" /\ req.auth /\ req.value = << 1 >>
    /\ Positions(g_data) = << 10 * Unit, 10 * Unit, 60 * Unit, 60 * Unit >>
    /\ eeprom = g_data
    /\ stepper.currentPos = 0 /\ stepper.targetPos = 0
    /\ ops > 0

\* C24: in every state after startup steps_per_revolution is the constant of
\* the selected motor profile (2048 for 28BYJ-48 + ULN, 200 for Nema17 +
\* A4988), also after first boot, a version mismatch or erase and restart.
C24_StepsOfProfile ==
    g_data.steps_per_revolution = ProfileSteps(g_data.stepper_motor_and_driver)

\* C25: after startup, after every motor_acceleration or motor_max_speed
\* action and after every settings submit, the acceleration and the maximum
\* speed handed to the motor driver both equal the stored motor_acceleration
\* and motor_max_speed; changing one of the two applies both again.
C25_DriverConfigured ==
    /\ stepper.acceleration = g_data.motor_acceleration
    /\ stepper.maxSpeed = g_data.motor_max_speed

\* after a settings submit made a new driver object, motor_max_speed was set
\* to 500: the driver holds the new maximum speed and the stored acceleration
C25_Witness ==
    /\ req.path = "api" /\ req.action = "motor_max_speed" /\ req.auth
    /\ req.value = << 500 >>
    /\ ops >= 2
    /\ g_data.motor_max_speed = 500
    /\ stepper.maxSpeed = 500
    /\ stepper.acceleration = MOTOR_ACCELERATION
    /\ g_data.apikey = FormKey

\* the rotations an entry point asks move_motor for
EntryDelta(r) ==
    CASE r.action = "move_motor" -> r.value[1]
      [] r.action = "left" -> 0 - r.value[1]
      [] r.action = "right" -> r.value[1]
      [] r.action = "move_total_left" -> (0 - 100) * Unit
      [] r.action = "move_total_right" -> 100 * Unit

\* C26: every move entry point (web step buttons, web and API move to total
\* left / right, API move_motor) either refuses the request and leaves
\* record, EEPROM and motor as they are, or enters move_motor with its delta:
\* the record is the one move_motor plans from the state and the delta, the
\* same record is written, and the motor command that follows is the one of
\* move_motor's clamped rotations; nothing but a move entry point enters
\* move_motor.
C26_OneMoveRule ==
    [][ /\ (Arrives /\ req'.action \in MoveActions) =>
              \/ /\ g_data' = g_data /\ eeprom' = eeprom
                 /\ stepper' = stepper /\ pc' = "idle"
              \/ /\ pc' = "move_motor"
                 /\ requested' = EntryDelta(req')
                 /\ g_data' = PlanMove(g_data, requested')
                 /\ eeprom' = g_data'
                 /\ no_rotations' = ClampedRotations(g_data, requested')
                 /\ stepper' = stepper
        /\ Accepts => (Arrives /\ req'.action \in MoveActions)
        /\ Commands =>
              /\ stepper' = StepperMove(stepper,
                                ToSteps(no_rotations, g_data.steps_per_revolution))
              /\ g_data' = g_data /\ eeprom' = eeprom
      ]_vars

\* a web left button went through move_motor on the calibrated record: the
\* record is planned from the old current, the motor runs towards the steps
\* of the clamped rotations
C26_Witness ==
    /\ req.path = "web" /\ req.action = "left" /\ req.auth
    /\ pc = "idle" /\ sent # << >>
    /\ requested = 0 - WebSteps[1]
    /\ no_rotations = requested
    /\ g_data.position_current = g_data.position_current_previous + requested
    /\ g_data.position_left = 10 * Unit
    /\ IsRunning(stepper)
    /\ stepper.targetPos = ToSteps(no_rotations, g_data.steps_per_revolution)

\* this step runs setup() again
Restarts == boots' # boots

\* API reboot or reset with the value "true"
RebootOrResetTrue(r) ==
    r.path = "api" /\ r.action \in {"reboot", "reset"} /\ r.auth
    /\ r.value = << 1 >>

\* a request that answers with a failure, or reboot / reset without "true",
\* leaves the device running, and reboot / reset without "true" leave
\* settings and EEPROM as they are
NoRestartOnFailure ==
    /\ (ops' = ops + 1 /\ sent' # << >> /\ sent'[1].code = 501) => ~ Restarts
    /\ (Arrives /\ req'.path = "api" /\ req'.action \in {"reboot", "reset"}
           /\ req'.value # << 1 >>) =>
          /\ ~ Restarts
          /\ g_data' = g_data
          /\ eeprom' = eeprom

\* C27: validation, conflict and not-calibrated failures never restart the
\* device; with the power on, the device restarts only on API reboot or
\* reset with value "true" and on /erase; API reboot or reset with any other
\* value restarts nothing and changes no persisted setting.
C27_RestartOnlyOnRebootOrErase ==
    [][ /\ NoRestartOnFailure
        /\ Restarts =>
              \/ req'.action = "power_loss"
              \/ RebootOrResetTrue(req')
              \/ req'.action = "erase"
      ]_vars

\* C27 as amended: validation, conflict and not-calibrated failures never
\* restart the device; with the power on, the device restarts only on API
\* reboot or reset with value "true", on /erase, on a WiFi credentials submit
\* (/wifi_ajax) and after a firmware upload (/upgradefw2); API reboot or
\* reset with any other value restarts nothing and changes no persisted
\* setting.
C27_RestartOnlyOnCommand ==
    [][ /\ NoRestartOnFailure
        /\ Restarts =>
              /\ ops' = ops + 1
              /\ \/ req'.action = "power_loss"
                 \/ RebootOrResetTrue(req')
                 \/ req'.path = "web"
                    /\ req'.action \in {"erase", "wifi", "upgradefw2"}
      ]_vars

\* reboot without "true" has been answered on a calibrated record with the
\* motor running: setup() has run once, the motor still runs
C27_Witness ==
    /\ req.path = "api" /\ req.action = "reboot" /\ req.auth
    /\ req.value = << 0 >>
    /\ sent # << >> /\ sent[1].code = 200
    /\ boots = 1
    /\ IsRunning(stepper)
    /\ eeprom = g_data

\* C28: the motor travels exactly clamped rotations * steps_per_revolution
\* raw steps, nothing lost in the conversion to whole steps: when a move
\* completes naturally, the raw steps travelled over steps_per_revolution are
\* the clamped rotations, for every step size of the web page and both
\* profiles.
C28_NoLossInSteps ==
    [][ (Finishes /\ g_data.steps_per_revolution # 0) =>
            stepper'.currentPos * (Unit \div g_data.steps_per_revolution)
               = no_rotations
      ]_vars

\* C29: stop_motor always sets the raw step counter to zero, whether or not
\* the motor had moved; its record is the one a single reconciliation
\* gives, also where the web page's button runs the handler twice; and a
\* stop_motor that follows a stop_motor with no move in between changes
\* neither the record nor the EEPROM image.
C29_StopResetsCounter ==
    [][ Stops =>
            /\ stepper'.currentPos = 0
            /\ g_data' = StopMotor(g_data, stepper.currentPos)
            /\ (req.auth /\ req.action = "stop_motor") =>
                   (g_data' = g_data /\ eeprom' = eeprom)
      ]_vars

\* the web page's stop_motor button, whose handler ran twice, has stopped a
\* move half way: the counter is at zero, current is previous plus the
\* rotations travelled and not the planned destination
C29_Witness ==
    /\ req.path = "web" /\ req.action = "stop_motor" /\ req.auth
    /\ Len(sent) = 2
    /\ stepper.currentPos = 0 /\ stepper.targetPos = 0
    /\ g_data.position_current # g_data.position_current_previous
    /\ g_data.position_current # g_data.position_current_previous + no_rotations
    /\ eeprom = g_data

\* C30: when stop_motor returns from interrupting a move that has taken
\* steps, the motor is idle, the loop passes that follow take no further
\* step, the reconciled current is the position the motor is actually at,
\* and a move request that comes next is not refused as busy.
C30_StopHalts ==
    [][ /\ (Stops /\ IsRunning(stepper) /\ stepper.currentPos # 0) =>
              /\ ~ IsRunning(stepper')
              /\ g_data'.position_current = actual'
        /\ (req.auth /\ req.action = "stop_motor" /\ ops' = ops) =>
              stepper' = stepper
        /\ (req.auth /\ req.action = "stop_motor" /\ Arrives
              /\ req'.action \in MoveActions) => ~ req'.busy
      ]_vars

\* the requests that are not meant to interrupt a move
BystanderActions ==
    {"set_left", "set_right", "reset_left", "reset_current", "reset_right",
     "motor_acceleration", "motor_max_speed", "set_host", "set_language",
     "settings"}

\* C31: while a move is in flight every request other than stop_motor (set
\* or reset of a threshold or of current, motor_acceleration,
\* motor_max_speed, set_host, set_language, settings submit) leaves the motor
\* running towards its target and the raw step counter as it is.
C31_OnlyStopInterrupts ==
    [][ (Arrives /\ IsRunning(stepper) /\ req'.action \in BystanderActions) =>
            /\ stepper'.currentPos = stepper.currentPos
            /\ stepper'.targetPos = stepper.targetPos
      ]_vars

\* what a request for "/" can carry: no button, or one of the buttons
RootButtons ==
    {"page", "reset_left", "reset_current", "reset_right", "left", "right",
     "set_left", "set_right", "move_total_left", "move_total_right",
     "stop_motor"}

\* C32: every request to /api and every request to the web page made with
\* a valid login is answered with exactly one response, whose status is the
\* outcome of the one operation carried out.
C32_OneResponse ==
    (/\ pc = "idle"
     /\ \/ req.path = "api"
        \/ req.path = "web" /\ req.auth /\ req.action \in RootButtons)
       => Len(sent) = 1

\* C33: an API request that is answered with an error status leaves the
\* settings in memory and in the EEPROM as they were; no fallback value is
\* stored for a missing or out-of-range argument.
C33_ErrorNoMutation ==
    [][ (/\ ops' = ops + 1 /\ req'.path = "api"
         /\ sent' # << >> /\ sent'[1].code = 501) =>
            /\ g_data' = g_data
            /\ eeprom' = eeprom
      ]_vars

\* the runs followed for progress are those of MaxOps - 1 requests
FairInit == Booted(1)

\* loop() runs for ever and every pass calls g_AccelStepper.run(): a motor
\* with a distance to go is stepped until it has reached its target, and a
\* handler that has entered move_motor runs on to its end
FairSpec ==
    /\ FairInit
    /\ [][Next]_vars
    /\ WF_vars(LoopToTarget)
    /\ WF_vars(MoveMotorCommand)

\* the last request ended a move before its target: stop_motor, a settings
\* submit (new driver object), or a restart (reboot or reset with "true",
\* /erase, a WiFi submit, a firmware upload, power lost and back)
Interrupted ==
    \/ req.action = "stop_motor" /\ req.auth
    \/ req.action = "settings"
    \/ RebootOrResetTrue(req)
    \/ req.action \in {"erase", "wifi", "upgradefw2", "power_loss"}

\* C34: the handler that commands a move answers with the motor still at
\* step 0 of its run; with loop() running, a motor that runs comes to rest,
\* and unless stop_motor, a settings submit or a restart ended the move, it
\* rests with the raw step counter at the step count move_motor commanded.
C34_MoveCompletes ==
    /\ [][ (Commands /\ ToSteps(no_rotations, g_data.steps_per_revolution) # 0) =>
               /\ IsRunning(stepper')
               /\ stepper'.currentPos = 0
               /\ sent' # << >>
         ]_vars
    /\ (pc = "idle" /\ IsRunning(stepper)) ~>
          (/\ pc = "idle" /\ ~ IsRunning(stepper)
           /\ \/ Interrupted
              \/ /\ stepper.currentPos =
                       ToSteps(no_rotations, g_data.steps_per_revolution)
                 /\ stepper.currentPos # 0)

\* an accepted move has run to its target with no request in between: the
\* motor is idle, the counter holds the commanded steps, the answer was sent
C34_Witness ==
    /\ req.action \in MoveActions /\ req.auth /\ ~ req.busy
    /\ pc = "idle" /\ sent # << >>
    /\ ~ IsRunning(stepper)
    /\ stepper.currentPos # 0
    /\ stepper.currentPos = ToSteps(no_rotations, g_data.steps_per_revolution)

Between(lo, x, hi) == (lo <= x /\ x <= hi) \/ (hi <= x /\ x <= lo)

\* this step is stop_motor interrupting the move that the request before it
\* had accepted: only loop passes lie between the two
StopsTheMove ==
    /\ Stops /\ pc = "idle" /\ IsRunning(stepper)
    /\ req.action \in MoveActions /\ req.auth /\ ~ req.busy

\* C35: when stop_motor interrupts a move with no threshold set / reset and
\* no reset_current since the move was accepted, the current it computes
\* lies between previous and the planned destination, and inside
\* [left, right].
C35_StopInsideBounds ==
    [][ StopsTheMove =>
            /\ Between(g_data.position_current_previous,
                       g_data'.position_current, g_data.position_current)
            /\ g_data'.position_left <= g_data'.position_current
            /\ g_data'.position_current <= g_data'.position_right
      ]_vars

\* the first half of C35 taken alone (it holds: the loss is in "inside
\* [left, right]", when previous itself was outside)
C35_BetweenPreviousAndPlan ==
    [][ StopsTheMove =>
            Between(g_data.position_current_previous,
                    g_data'.position_current, g_data.position_current)
      ]_vars

\* C36: whatever the record's current was, a move that move_motor accepts on
\* a record with left <= right plans a current inside [left, right].
C36_MoveRestoresBounds ==
    [][ (Accepts /\ g_data.position_left <= g_data.position_right) =>
            InBounds(g_data')
      ]_vars

\* move_motor has accepted a move on a record whose current (now previous)
\* was below left, and the planned current is inside the thresholds
C36_Witness ==
    /\ pc = "move_motor"
    /\ g_data.position_current_previous < g_data.position_left
    /\ InBounds(g_data)
    /\ eeprom = g_data

\* this step is a loop pass that finds the motor at rest
IdlePass ==
    /\ pc = "idle" /\ pc' = "idle" /\ ops' = ops
    /\ ~ IsRunning(stepper) /\ stepper' = stepper

\* C37: while the motor runs, the driver the settings select is enabled
\* (outputs enabled for the ULN, 'sleep' pin HIGH for the A4988); a loop pass
\* that finds the motor at rest leaves that driver off, and it is off
\* whenever a request is served with the motor at rest.
C37_DriverFollowsMotor ==
    /\ [](IsRunning(stepper) => DriverEnabled(motor_pins, g_data))
    /\ [][ IdlePass => ~ DriverEnabled(motor_pins', g_data') ]_vars
    /\ [][ (ops' = ops + 1 /\ req'.path # "none" /\ ~ IsRunning(stepper)) =>
               ~ DriverEnabled(motor_pins, g_data)
         ]_vars

\* a move has run to its end and the loop pass after it has switched the
\* driver off again
C37_Witness ==
    /\ pc = "idle"
    /\ ~ IsRunning(stepper)
    /\ stepper.currentPos # 0
    /\ req.action \in MoveActions
    /\ ~ DriverEnabled(motor_pins, g_data)

\* C38: set_api never stores a key of more than LENGTH_API_KEY characters:
\* a set_api request whose value is longer is answered with an error and
\* leaves the stored key as it was.
C38_LongKeyRejected ==
    /\ [](/\ Len(g_data.apikey) <= LENGTH_API_KEY
          /\ Len(eeprom.apikey) <= LENGTH_API_KEY)
    /\ [][ (/\ ops' = ops + 1 /\ req'.path = "api" /\ req'.action = "set_api"
            /\ req'.text # << >> /\ Len(req'.text[1]) > LENGTH_API_KEY) =>
               /\ sent' # << >> /\ sent'[1].code = 501
               /\ g_data'.apikey = g_data.apikey
               /\ eeprom'.apikey = eeprom.apikey
         ]_vars

====
